---- MODULE Spec2Model ----
(***************************************************************************)
(* A model of govee-rs: the request builders and capability checks of the  *)
(* string-based schema module (schema.rs) with its blocking Client         *)
(* (lib.rs), and the typed models module (models.rs, endpoints.rs) with    *)
(* its async GoveeClient (client.rs).                                      *)
(*                                                                         *)
(* BuildSpec applies the pure builders to inputs drawn from bounded sets.  *)
(* Spec runs client operations against a transport that answers each       *)
(* request with any outcome of a bounded pool.                             *)
(***************************************************************************)
EXTENDS Integers, Sequences, FiniteSets, TLC

VARIABLES client, calls, build, env

vars == <<client, calls, build, env>>

----------------------------------------------------------------------------
(* Bounds and program constants *)

\* How far around each range limit the numeric payloads are drawn.
Margin == 1

\* schema.rs: `if value < 2000 || value > 9000`
TEMP_MIN == 2000
TEMP_MAX == 9000

\* u8 channel limit of models::Color
U8_MAX == 255

----------------------------------------------------------------------------
(* Results *)

Ok(v) == [ok |-> TRUE, val |-> v]
Err(e) == [ok |-> FALSE, err |-> e]

\* error.rs GoveeError (schema generation)
Unsupported(command, device) ==
    [kind |-> "Unsupported", command |-> command, device |-> device]
Error(msg) == [kind |-> "Error", msg |-> msg]
NoDevicesReturned == [kind |-> "NoDevicesReturned"]
RequestError(source) == [kind |-> "RequestError", source |-> source]

\* client.rs GoveeError::Api wrapping gen_api_wrapper's ApiError
Api(source) == [kind |-> "Api", source |-> source]

----------------------------------------------------------------------------
(* JSON values *)

JStr(s) == [type |-> "string", str |-> s]
JNum(n) == [type |-> "number", num |-> n]
JColor(c) == [type |-> "object", r |-> c.r, g |-> c.g, b |-> c.b]

----------------------------------------------------------------------------
(* schema.rs *)

\* schema.rs enum Command
Command == {"Turn", "Brightness", "Color", "ColorTem"}

\* impl Display for Command
CommandDisplay(command) ==
    CASE command = "Turn" -> "turn"
      [] command = "Brightness" -> "brightness"
      [] command = "Color" -> "color"
      [] command = "ColorTem" -> "colorTem"

\* Device::supports with the ColorTem arm looking for the Color token
supports_wrong_token(self, command) ==
    CASE command = "Turn" -> "turn" \in self.supported_commands
      [] command = "Brightness" -> "brightness" \in self.supported_commands
      [] command = "Color" -> "color" \in self.supported_commands
      [] command = "ColorTem" -> "color" \in self.supported_commands

\* Device::supports
supports(self, command) ==
    CASE command = "Turn" -> "turn" \in self.supported_commands
      [] command = "Brightness" -> "brightness" \in self.supported_commands
      [] command = "Color" -> "color" \in self.supported_commands
      [] command = "ColorTem" -> "colorTem" \in self.supported_commands

\* Device::toggle_request
toggle_request(self, state) ==
    IF ~supports(self, "Turn")
    THEN Err(Unsupported("Turn", self))
    ELSE Ok([device |-> self.device,
             model |-> self.model,
             cmd |-> [name |-> "turn",
                      value |-> IF state = "On" THEN JStr("on") ELSE JStr("off")]])

\* Device::color_request whose Unsupported error carries a device that lost its
\* supported set
color_request_device_emptied(self, color) ==
    IF ~supports(self, "Color")
    THEN Err(Unsupported("Color", [self EXCEPT !.supported_commands = {}]))
    ELSE Ok([device |-> self.device,
             model |-> self.model,
             cmd |-> [name |-> "color", value |-> JColor(color)]])

\* Device::color_request
color_request(self, color) ==
    IF ~supports(self, "Color")
    THEN Err(Unsupported("Color", self))
    ELSE Ok([device |-> self.device,
             model |-> self.model,
             cmd |-> [name |-> "color", value |-> JColor(color)]])

\* Device::color_temperature_request with the range check before the
\* capability check
color_temperature_request_range_first(self, value) ==
    IF value < TEMP_MIN \/ value > TEMP_MAX
    THEN Err(Error("Color temperatures must be from 2000 to 9000 inclusive"))
    ELSE IF ~supports(self, "ColorTem")
    THEN Err(Unsupported("ColorTem", self))
    ELSE Ok([device |-> self.device,
             model |-> self.model,
             cmd |-> [name |-> "color", value |-> JNum(value)]])

\* Device::color_temperature_request
color_temperature_request(self, value) ==
    IF ~supports(self, "ColorTem")
    THEN Err(Unsupported("ColorTem", self))
    ELSE IF value < TEMP_MIN \/ value > TEMP_MAX
    THEN Err(Error("Color temperatures must be from 2000 to 9000 inclusive"))
    ELSE Ok([device |-> self.device,
             model |-> self.model,
             cmd |-> [name |-> "color", value |-> JNum(value)]])

\* Device::brightness_request with a 0..100 range check added
brightness_request_checked(self, value) ==
    IF ~supports(self, "Brightness")
    THEN Err(Unsupported("Brightness", self))
    ELSE IF value > 100
    THEN Err(Error("Brightness must be from 0 to 100 inclusive"))
    ELSE Ok([device |-> self.device,
             model |-> self.model,
             cmd |-> [name |-> "brightness", value |-> JNum(value)]])

\* Device::brightness_request
brightness_request(self, value) ==
    IF ~supports(self, "Brightness")
    THEN Err(Unsupported("Brightness", self))
    ELSE Ok([device |-> self.device,
             model |-> self.model,
             cmd |-> [name |-> "brightness", value |-> JNum(value)]])

----------------------------------------------------------------------------
(* models.rs, endpoints.rs *)

\* models.rs enum ControlCommand
ControlCommand == {"Turn", "Brightness", "Color", "ColorTem"}

\* serde rename_all = "camelCase" on the variants of ControlCommand,
\* ControlCmd and PowerState
SerdeCamelCase(variant) ==
    CASE variant = "Turn" -> "turn"
      [] variant = "Brightness" -> "brightness"
      [] variant = "Color" -> "color"
      [] variant = "ColorTem" -> "colorTem"
      [] variant = "On" -> "on"
      [] variant = "Off" -> "off"

\* models.rs Device::supports
models_supports(self, command) == command \in self.supported_commands

\* models.rs enum ControlCmd
CmdTurn(state) == [variant |-> "Turn", state |-> state]
CmdBrightness(v) == [variant |-> "Brightness", level |-> v]
CmdColor(c) == [variant |-> "Color", color |-> c]
CmdColorTem(v) == [variant |-> "ColorTem", temp |-> v]

\* Serialize for ControlCmd: tag = "name", content = "value"
SerializeControlCmd(cmd) ==
    [name |-> SerdeCamelCase(cmd.variant),
     value |-> CASE cmd.variant = "Turn" -> JStr(SerdeCamelCase(cmd.state))
                 [] cmd.variant = "Brightness" -> JNum(cmd.level)
                 [] cmd.variant = "Color" -> JColor(cmd.color)
                 [] cmd.variant = "ColorTem" -> JNum(cmd.temp)]

\* DeviceControlEndpoint::builder()...build() as GoveeClient::control calls it:
\* every field is set, so build() is always Ok
DeviceControlEndpointBuild(device, model, control_cmd) ==
    Ok([device |-> device, model |-> model, control_cmd |-> control_cmd])

\* DeviceControlEndpoint::body with the device and model fields exchanged
DeviceControlEndpointBody_swapped(self) ==
    [device |-> self.model,
     model |-> self.device,
     cmd |-> SerializeControlCmd(self.control_cmd)]

\* DeviceControlEndpoint::body
DeviceControlEndpointBody(self) ==
    [device |-> self.device,
     model |-> self.model,
     cmd |-> SerializeControlCmd(self.control_cmd)]

\* GoveeClient::control up to the query: the command built for the device
control_build(device, cmd) ==
    LET endpoint == DeviceControlEndpointBuild(device.device, device.model, cmd)
    IN  IF endpoint.ok THEN Ok(DeviceControlEndpointBody(endpoint.val))
                       ELSE endpoint

----------------------------------------------------------------------------
(* Inputs *)

DeviceIds == {"34:20:03:15:82:ae", "99:E5:A4:C1:38:29:DA:7B"}

ModelOf(id) == IF id = "34:20:03:15:82:ae" THEN "H6089" ELSE "H6159"
NameOf(id) == IF id = "34:20:03:15:82:ae" THEN "fake device" ELSE "test light"

\* schema::Device keeps the supportCmds strings as they came off the wire
SchemaTokens == {"turn", "brightness", "color", "colorTem", "colortem"}

SchemaDevices ==
    {[device |-> id, model |-> ModelOf(id), name |-> NameOf(id),
      controllable |-> TRUE, retrievable |-> TRUE, supported_commands |-> s] :
        id \in DeviceIds, s \in SUBSET SchemaTokens}

ModelsDevices ==
    {[device |-> id, model |-> ModelOf(id), name |-> NameOf(id),
      controllable |-> TRUE, retrievable |-> TRUE, supported_commands |-> s] :
        id \in DeviceIds, s \in SUBSET ControlCommand}

PowerStates == {"On", "Off"}

TempValues ==
    {1000, 5000} \cup ((TEMP_MIN - Margin) .. (TEMP_MIN + Margin))
                 \cup ((TEMP_MAX - Margin) .. (TEMP_MAX + Margin))

BrightnessValues == {0, 22} \cup ((100 - Margin) .. (100 + Margin))

\* schema::Color has u32 channels, models::Color has u8 channels
SchemaColors ==
    {[r |-> 0, g |-> 195, b |-> 255], [r |-> 10, g |-> 255, b |-> 6],
     [r |-> U8_MAX + Margin, g |-> 0, b |-> 0]}

ModelsColors == {c \in SchemaColors : c.r <= U8_MAX /\ c.g <= U8_MAX /\ c.b <= U8_MAX}

----------------------------------------------------------------------------
(* BuildSpec: the builders applied to every input *)

NoBuild == [fn |-> "none"]

Applied(fn, device, arg, result) ==
    [fn |-> fn, device |-> device, arg |-> arg, result |-> result]

ApplySupports ==
    \E d \in SchemaDevices, c \in Command :
        build' = Applied("supports", d, JStr(c), supports(d, c))

ApplyModelsSupports ==
    \E d \in ModelsDevices, c \in ControlCommand :
        build' = Applied("models_supports", d, JStr(c), models_supports(d, c))

ApplyToggleRequest ==
    \E d \in SchemaDevices, s \in PowerStates :
        build' = Applied("toggle_request", d, JStr(s), toggle_request(d, s))

ApplyColorRequest ==
    \E d \in SchemaDevices, c \in SchemaColors :
        build' = Applied("color_request", d, JColor(c), color_request(d, c))

ApplyColorTemperatureRequest ==
    \E d \in SchemaDevices, v \in TempValues :
        build' = Applied("color_temperature_request", d, JNum(v),
                         color_temperature_request(d, v))

ApplyBrightnessRequest ==
    \E d \in SchemaDevices, v \in BrightnessValues :
        build' = Applied("brightness_request", d, JNum(v), brightness_request(d, v))

ControlCmds ==
    {CmdTurn(s) : s \in PowerStates} \cup {CmdBrightness(v) : v \in BrightnessValues}
        \cup {CmdColor(c) : c \in ModelsColors} \cup {CmdColorTem(v) : v \in TempValues}

ApplyControlBuild ==
    \E d \in ModelsDevices, cmd \in ControlCmds :
        build' = Applied("control", d, cmd, control_build(d, cmd))

BuildReset == build # NoBuild /\ build' = NoBuild

BuildInit ==
    /\ build = NoBuild
    /\ client = [gen |-> "none"]
    /\ calls = <<>>
    /\ env = [callers |-> {}]

BuildNext ==
    /\ \/ build = NoBuild /\ ApplySupports
       \/ build = NoBuild /\ ApplyModelsSupports
       \/ build = NoBuild /\ ApplyToggleRequest
       \/ build = NoBuild /\ ApplyColorRequest
       \/ build = NoBuild /\ ApplyColorTemperatureRequest
       \/ build = NoBuild /\ ApplyBrightnessRequest
       \/ build = NoBuild /\ ApplyControlBuild
       \/ BuildReset
    /\ UNCHANGED <<client, calls, env>>

BuildSpec == BuildInit /\ [][BuildNext]_vars

----------------------------------------------------------------------------
(* HTTP exchange: what a request carries and what the transport answers *)

Some(v) == [some |-> TRUE, val |-> v]
None == [some |-> FALSE]

JBool(b) == [type |-> "bool", bool |-> b]
JNull == [type |-> "null"]

\* http::HeaderName / reqwest header(): names are stored lower-cased
HeaderNameNormal(name) ==
    CASE name = "Govee-API-key" -> "govee-api-key"
      [] name = "Govee-API-Key" -> "govee-api-key"
      [] name = "Content-Type" -> "content-type"
      [] OTHER -> name

\* HeaderValue::from_str: a value with a control character is rejected
InvalidHeaderValues == {"foo\nbar"}
HeaderValueValid(value) == value \notin InvalidHeaderValues

Header(name, value, sensitive) ==
    [name |-> HeaderNameNormal(name), value |-> value, sensitive |-> sensitive]

\* HeaderMap::insert replaces an entry of the same name
HeaderInsert(headers, h) == {x \in headers : x.name # h.name} \cup {h}

\* Response bodies
Unreadable == [kind |-> "unreadable"]
NotJson == [kind |-> "text"]
Envelope(keys, data) == [kind |-> "object", keys |-> keys, data |-> data]

RawDevice(id, cmds) ==
    [device |-> id, model |-> ModelOf(id), deviceName |-> NameOf(id),
     controllable |-> TRUE, retrievable |-> TRUE, supportCmds |-> cmds]

RawDeviceFull(id, model, name, controllable, retrievable, cmds) ==
    [device |-> id, model |-> model, deviceName |-> name,
     controllable |-> controllable, retrievable |-> retrievable,
     supportCmds |-> cmds]

\* Three devices as in the list-devices tests; the second is not retrievable
\* and names its commands in another order, one of them twice
DevicesData ==
    [type |-> "object", shape |-> "devices",
     devices |-> <<RawDevice("99:E5:A4:C1:38:29:DA:7B",
                             <<"turn", "brightness", "color", "colorTem">>),
                   RawDeviceFull("C6:EA:B8:56:C8:C6:89:BE", "H6188", "H6188_89BE",
                                 TRUE, FALSE,
                                 <<"colorTem", "turn", "brightness", "color", "turn">>),
                   RawDeviceFull("34:20:03:2e:30:2b", "H5081", "Smart Plug",
                                 TRUE, TRUE, <<"turn">>)>>]

\* A list whose second device names a command that is not one of the four
\* tokens
UnknownCmdDevicesData ==
    [type |-> "object", shape |-> "devices",
     devices |-> <<RawDevice("34:20:03:15:82:ae", <<"turn">>),
                   RawDevice("99:E5:A4:C1:38:29:DA:7B", <<"turn", "Turn">>)>>]

StateData ==
    [type |-> "object", shape |-> "state",
     device |-> "34:20:03:15:82:ae", model |-> "H6089",
     properties |-> <<[key |-> "online", value |-> JBool(FALSE)],
                      [key |-> "powerState", value |-> JStr("off")],
                      [key |-> "brightness", value |-> JNum(82)],
                      [key |-> "color", value |-> JColor([r |-> 11, g |-> 22, b |-> 33])]>>]

\* A state with a colorTem property
StateDataTem ==
    [type |-> "object", shape |-> "state",
     device |-> "99:E5:A4:C1:38:29:DA:7B", model |-> "H6159",
     properties |-> <<[key |-> "powerState", value |-> JStr("on")],
                      [key |-> "colorTem", value |-> JNum(4000)]>>]

\* A state whose second property has a key that is not one of the five
UnknownPropertyStateData ==
    [type |-> "object", shape |-> "state",
     device |-> "34:20:03:15:82:ae", model |-> "H6089",
     properties |-> <<[key |-> "online", value |-> JBool(TRUE)],
                      [key |-> "mode", value |-> JNum(3)],
                      [key |-> "brightness", value |-> JNum(82)]>>]

EmptyData == [type |-> "object", shape |-> "empty"]

FullKeys == {"data", "message", "code"}

Bodies ==
    {Unreadable, NotJson,
     Envelope(FullKeys, DevicesData),
     Envelope(FullKeys \cup {"requestId"}, DevicesData),
     Envelope(FullKeys, JNull),
     Envelope({"message", "code"}, JNull),
     Envelope(FullKeys, EmptyData),
     Envelope({"data"}, EmptyData),
     Envelope(FullKeys, StateData),
     Envelope(FullKeys \cup {"requestId"}, StateData),
     Envelope(FullKeys, StateDataTem),
     Envelope(FullKeys, UnknownCmdDevicesData),
     Envelope(FullKeys, UnknownPropertyStateData)}

Statuses == {200, 201, 404, 500}

\* http::StatusCode::is_success
is_success(status) == 200 <= status /\ status <= 299

ConnectFailure == [type |-> "failure"]
HttpResponse(status, body) == [type |-> "response", status |-> status, body |-> body]

Outcomes ==
    {ConnectFailure} \cup {HttpResponse(st, b) : st \in Statuses, b \in Bodies}

----------------------------------------------------------------------------
(* Decoding *)

Range(seq) == {seq[i] : i \in 1 .. Len(seq)}

\* Deserialize for schema::Device: supportCmds is a HashSet<String>
DecodeSchemaDevice(raw) ==
    Ok([device |-> raw.device, model |-> raw.model, name |-> raw.deviceName,
        controllable |-> raw.controllable, retrievable |-> raw.retrievable,
        supported_commands |-> Range(raw.supportCmds)])

\* Deserialize for models::ControlCommand (camelCase tokens, closed enum)
DecodeControlCommand(token) ==
    IF \E c \in ControlCommand : SerdeCamelCase(c) = token
    THEN Ok(CHOOSE c \in ControlCommand : SerdeCamelCase(c) = token)
    ELSE Err("unknown variant")

\* Deserialize for models::Device: supportCmds is a HashSet<ControlCommand>
DecodeModelsDevice(raw) ==
    IF \A i \in 1 .. Len(raw.supportCmds) : DecodeControlCommand(raw.supportCmds[i]).ok
    THEN Ok([device |-> raw.device, model |-> raw.model, name |-> raw.deviceName,
             controllable |-> raw.controllable, retrievable |-> raw.retrievable,
             supported_commands |->
                 {DecodeControlCommand(t).val : t \in Range(raw.supportCmds)}])
    ELSE Err("unknown variant")

\* Deserialize for schema::Devices
DecodeSchemaDevices(data) ==
    IF data.type = "object" /\ data.shape = "devices"
    THEN Ok([devices |-> [i \in 1 .. Len(data.devices) |->
                              DecodeSchemaDevice(data.devices[i]).val]])
    ELSE Err("missing field devices")

DecodeModelsDevices_reversed(data) ==
    IF data.type = "object" /\ data.shape = "devices"
    THEN IF \A i \in 1 .. Len(data.devices) : DecodeModelsDevice(data.devices[i]).ok
         THEN Ok([devices |-> [i \in 1 .. Len(data.devices) |->
                                   DecodeModelsDevice(
                                       data.devices[Len(data.devices) + 1 - i]).val]])
         ELSE Err("unknown variant")
    ELSE Err("missing field devices")

\* Deserialize for models::Devices
DecodeModelsDevices(data) ==
    IF data.type = "object" /\ data.shape = "devices"
    THEN IF \A i \in 1 .. Len(data.devices) : DecodeModelsDevice(data.devices[i]).ok
         THEN Ok([devices |-> [i \in 1 .. Len(data.devices) |->
                                   DecodeModelsDevice(data.devices[i]).val]])
         ELSE Err("unknown variant")
    ELSE Err("missing field devices")

\* Deserialize for schema::DeviceState: properties is a Vec<HashMap<String, Value>>
DecodeSchemaDeviceState(data) ==
    IF data.type = "object" /\ data.shape = "state"
    THEN Ok([device |-> data.device, model |-> data.model,
             properties |-> data.properties])
    ELSE Err("missing field device")

DecodeDeviceProperty_keys_confused(elem) ==
    CASE elem.key = "online" /\ elem.value.type = "bool" ->
             Ok([variant |-> "Online", online |-> elem.value.bool])
      [] elem.key = "powerState" /\ elem.value.type = "string"
             /\ elem.value.str \in {"on", "off"} ->
             Ok([variant |-> "PowerState",
                 power_state |-> IF elem.value.str = "on" THEN "On" ELSE "Off"])
      [] elem.key = "brightness" /\ elem.value.type = "number" ->
             Ok([variant |-> "ColorTem", color_tem |-> elem.value.num])
      [] elem.key = "color" /\ elem.value.type = "object"
             /\ elem.value.r <= U8_MAX /\ elem.value.g <= U8_MAX
             /\ elem.value.b <= U8_MAX ->
             Ok([variant |-> "Color",
                 color |-> [r |-> elem.value.r, g |-> elem.value.g, b |-> elem.value.b]])
      [] elem.key = "colorTem" /\ elem.value.type = "number" ->
             Ok([variant |-> "Brightness", brightness |-> elem.value.num])
      [] OTHER -> Err("data did not match any variant")

\* Deserialize for models::DeviceProperty (untagged: first variant that fits)
DecodeDeviceProperty(elem) ==
    CASE elem.key = "online" /\ elem.value.type = "bool" ->
             Ok([variant |-> "Online", online |-> elem.value.bool])
      [] elem.key = "powerState" /\ elem.value.type = "string"
             /\ elem.value.str \in {"on", "off"} ->
             Ok([variant |-> "PowerState",
                 power_state |-> IF elem.value.str = "on" THEN "On" ELSE "Off"])
      [] elem.key = "brightness" /\ elem.value.type = "number" ->
             Ok([variant |-> "Brightness", brightness |-> elem.value.num])
      [] elem.key = "color" /\ elem.value.type = "object"
             /\ elem.value.r <= U8_MAX /\ elem.value.g <= U8_MAX
             /\ elem.value.b <= U8_MAX ->
             Ok([variant |-> "Color",
                 color |-> [r |-> elem.value.r, g |-> elem.value.g, b |-> elem.value.b]])
      [] elem.key = "colorTem" /\ elem.value.type = "number" ->
             Ok([variant |-> "ColorTem", color_tem |-> elem.value.num])
      [] OTHER -> Err("data did not match any variant")

\* Deserialize for models::DeviceState: properties is a Vec<DeviceProperty>
DecodeModelsDeviceState(data) ==
    IF data.type = "object" /\ data.shape = "state"
    THEN IF \A i \in 1 .. Len(data.properties) :
                DecodeDeviceProperty(data.properties[i]).ok
         THEN Ok([device |-> data.device, model |-> data.model,
                  properties |-> [i \in 1 .. Len(data.properties) |->
                                      DecodeDeviceProperty(data.properties[i]).val]])
         ELSE Err("data did not match any variant")
    ELSE Err("missing field device")

\* Deserialize for schema::DevicesResponse: data is an Option, message and
\* code are required
DecodeDevicesResponse(body) ==
    IF body.kind # "object" \/ ~({"message", "code"} \subseteq body.keys)
    THEN Err("decode")
    ELSE IF "data" \notin body.keys \/ body.data.type = "null"
    THEN Ok([data |-> None])
    ELSE LET d == DecodeSchemaDevices(body.data)
         IN  IF d.ok THEN Ok([data |-> Some(d.val)]) ELSE Err("decode")

\* Deserialize for schema::DeviceStateResponse: data, message and code are
\* required
DecodeDeviceStateResponse(body) ==
    IF body.kind # "object" \/ ~(FullKeys \subseteq body.keys)
    THEN Err("decode")
    ELSE LET d == DecodeSchemaDeviceState(body.data)
         IN  IF d.ok THEN Ok([data |-> d.val]) ELSE Err("decode")

\* Deserialize for models::BaseResponse<T>: data is the only field, required
DecodeBaseResponse(body, T) ==
    IF body.kind # "object" \/ "data" \notin body.keys
    THEN Err("missing field data")
    ELSE LET d == CASE T = "Devices" -> DecodeModelsDevices(body.data)
                    [] T = "DeviceState" -> DecodeModelsDeviceState(body.data)
                    [] T = "Value" -> Ok(body.data)
         IN  IF d.ok THEN Ok([data |-> d.val]) ELSE d

----------------------------------------------------------------------------
(* A client operation runs up to its one network exchange, where it either *)
(* hands a request to the transport or returns without one.                *)

Exchange(request) == [await |-> TRUE, request |-> request]
Return(result) == [await |-> FALSE, result |-> result]

Unit == [type |-> "unit"]

----------------------------------------------------------------------------
(* lib.rs: the blocking Client over the schema module *)

\* Client::new
Client_new(base_url, api_key) ==
    [gen |-> "Client", base_url |-> base_url, api_key |-> api_key]

\* Client::base_request that adds the header on the GET arm only
base_request_put_unauthenticated(self, verb, path) ==
    [method |-> verb,
     url |-> <<self.base_url, "/", path, "/">>,
     query |-> <<>>,
     headers |-> IF HeaderValueValid(self.api_key) /\ verb = "GET"
                 THEN {Header("Govee-API-key", self.api_key, FALSE)}
                 ELSE {},
     body |-> None,
     valid |-> HeaderValueValid(self.api_key)]

\* Client::base_request; reqwest's header() keeps an invalid value as a
\* builder error that send() reports
base_request(self, verb, path) ==
    [method |-> verb,
     url |-> <<self.base_url, "/", path, "/">>,
     query |-> <<>>,
     headers |-> IF HeaderValueValid(self.api_key)
                 THEN {Header("Govee-API-key", self.api_key, FALSE)}
                 ELSE {},
     body |-> None,
     valid |-> HeaderValueValid(self.api_key)]

\* reqwest RequestBuilder::json as the control operations call it
RequestBuilder_json(builder, req_body) ==
    [builder EXCEPT !.headers = HeaderInsert(@, Header("Content-Type",
                                                       "application/json", FALSE)),
                    !.body = Some(req_body)]

\* reqwest RequestBuilder::query as Client::state calls it
RequestBuilder_query(builder, pairs) == [builder EXCEPT !.query = pairs]

\* A request builder that is dropped without send(): nothing goes out
RequestBuilder_send_dropped(builder) == Return(Ok(Unit))

\* reqwest RequestBuilder::send as every Client operation calls it: a builder
\* error returns before the network is touched
RequestBuilder_send(builder) ==
    IF builder.valid THEN Exchange(builder)
                     ELSE Return(Err(RequestError("builder")))

\* `send()?` of the control operations: any completed response is Ok(()),
\* whatever its status, and the body is never read
control_sent(outcome) ==
    IF outcome.type = "failure" THEN Err(RequestError("request")) ELSE Ok(Unit)

\* Client::devices
Client_devices(self) == RequestBuilder_send(base_request(self, "GET", "devices"))

Client_devices_returns(outcome) ==
    IF outcome.type = "failure" THEN Err(RequestError("request"))
    ELSE IF outcome.body.kind = "unreadable" THEN Err(RequestError("body"))
    ELSE LET res == DecodeDevicesResponse(outcome.body)
         IN  IF ~res.ok THEN Err(RequestError("decode"))
             ELSE IF res.val.data.some THEN Ok(res.val.data.val)
             ELSE Err(NoDevicesReturned)

\* Client::state
Client_state(self, device) ==
    RequestBuilder_send(
        RequestBuilder_query(base_request(self, "GET", "devices/state"),
                             <<<<"device", device.device>>, <<"model", device.model>>>>))

Client_state_returns(outcome) ==
    IF outcome.type = "failure" THEN Err(RequestError("request"))
    ELSE IF outcome.body.kind = "unreadable" THEN Err(RequestError("body"))
    ELSE LET res == DecodeDeviceStateResponse(outcome.body)
         IN  IF ~res.ok THEN Err(RequestError("decode")) ELSE Ok(res.val.data)

\* Client::toggle
toggle(self, device, state) ==
    LET req_body == toggle_request(device, state)
    IN  IF ~req_body.ok THEN Return(req_body)
        ELSE RequestBuilder_send(
                 RequestBuilder_json(base_request(self, "PUT", "devices/control"),
                                     req_body.val))

\* Client::set_color
set_color(self, device, color) ==
    LET req_body == color_request(device, color)
    IN  IF ~req_body.ok THEN Return(req_body)
        ELSE RequestBuilder_send(
                 RequestBuilder_json(base_request(self, "PUT", "devices/control"),
                                     req_body.val))

\* Client::set_color_temperature
set_color_temperature(self, device, value) ==
    LET req_body == color_temperature_request(device, value)
    IN  IF ~req_body.ok THEN Return(req_body)
        ELSE RequestBuilder_send(
                 RequestBuilder_json(base_request(self, "PUT", "devices/control"),
                                     req_body.val))

\* Client::set_brightness
set_brightness(self, device, value) ==
    LET req_body == brightness_request(device, value)
    IN  IF ~req_body.ok THEN Return(req_body)
        ELSE RequestBuilder_send(
                 RequestBuilder_json(base_request(self, "PUT", "devices/control"),
                                     req_body.val))

----------------------------------------------------------------------------
(* client.rs: the async GoveeClient over the models module *)

\* GoveeClient::new (the url parses)
GoveeClient_new(api_url, api_key) ==
    [gen |-> "GoveeClient", api_url |-> api_url, auth |-> [api_key |-> api_key]]

\* Auth::set_header
set_header(self, headers) ==
    IF ~HeaderValueValid(self.api_key)
    THEN Err([variant |-> "HeaderValue"])
    ELSE Ok(HeaderInsert(headers, Header("Govee-API-Key", self.api_key, TRUE)))

\* RestClient::rest_endpoint
rest_endpoint(self, endpoint) == <<self.api_url, "/", endpoint>>

\* AsyncClient::rest_async up to client.execute(request)
rest_async(self, request, body) ==
    LET headers == set_header(self.auth, request.headers)
    IN  IF ~headers.ok
        THEN Return(Err([variant |-> "Client",
                         source |-> [variant |-> "AuthError", source |-> headers.err]]))
        ELSE Exchange([request EXCEPT !.headers = headers.val, !.body = body])

\* AsyncClient::rest_async from the answer of client.execute(request) on
rest_async_returns(outcome) ==
    IF outcome.type = "failure" \/ outcome.body.kind = "unreadable"
    THEN Err([variant |-> "Client", source |-> [variant |-> "Communication"]])
    ELSE Ok(outcome)

\* endpoints.rs
DevicesEndpoint ==
    [method |-> "GET", endpoint |-> "v1/devices", parameters |-> <<>>, body |-> None]

DeviceStateEndpoint_swapped(device, model) ==
    [method |-> "GET", endpoint |-> "v1/devices/state",
     parameters |-> <<<<"device", model>>, <<"model", device>>>>, body |-> None]

DeviceStateEndpoint(device, model) ==
    [method |-> "GET", endpoint |-> "v1/devices/state",
     parameters |-> <<<<"device", device>>, <<"model", model>>>>, body |-> None]

DeviceControlEndpoint(self) ==
    [method |-> "PUT", endpoint |-> "v1/devices/control", parameters |-> <<>>,
     body |-> Some(DeviceControlEndpointBody(self))]

\* gen_api_wrapper's Endpoint::query_async as the three operations call it,
\* up to rest_async
query_async(endpoint, self) ==
    LET req == [method |-> endpoint.method,
                url |-> rest_endpoint(self, endpoint.endpoint),
                query |-> endpoint.parameters,
                headers |-> IF endpoint.body.some
                            THEN {Header("Content-Type", "application/json", FALSE)}
                            ELSE {},
                body |-> None,
                valid |-> TRUE]
    IN  rest_async(self, req, endpoint.body)

\* query_async from the answer on: a body that is not JSON and a status that
\* is not 2xx are errors of the call, then the value is decoded as T
query_async_returns(outcome, T) ==
    LET rsp == rest_async_returns(outcome)
    IN  IF ~rsp.ok THEN rsp
        ELSE IF rsp.val.body.kind # "object"
        THEN Err([variant |-> "Server", status |-> rsp.val.status])
        ELSE IF ~is_success(rsp.val.status)
        THEN Err([variant |-> "ServerObject", status |-> rsp.val.status])
        ELSE LET v == DecodeBaseResponse(rsp.val.body, T)
             IN  IF v.ok THEN v
                 ELSE Err([variant |-> "DataType", typename |-> T])

\* `?` on a query result: From<ApiError<RestError>> for GoveeError
Try(result) == IF result.ok THEN result ELSE Err(Api(result.err))

TryStep(step) == IF step.await THEN step ELSE Return(Try(step.result))

\* GoveeClient::devices
GoveeClient_devices(self) == TryStep(query_async(DevicesEndpoint, self))

GoveeClient_devices_returns(outcome) ==
    LET wrapper == Try(query_async_returns(outcome, "Devices"))
    IN  IF wrapper.ok THEN Ok(wrapper.val.data) ELSE wrapper

\* GoveeClient::state
GoveeClient_state(self, device) ==
    TryStep(query_async(DeviceStateEndpoint(device.device, device.model), self))

GoveeClient_state_returns(outcome) ==
    LET wrapper == Try(query_async_returns(outcome, "DeviceState"))
    IN  IF wrapper.ok THEN Ok(wrapper.val.data) ELSE wrapper

\* GoveeClient::control
control(self, device, cmd) ==
    LET endpoint == DeviceControlEndpointBuild(device.device, device.model, cmd)
    IN  TryStep(query_async(DeviceControlEndpoint(endpoint.val), self))

control_returns(outcome) ==
    LET any == Try(query_async_returns(outcome, "Value"))
    IN  IF any.ok THEN Ok(Unit) ELSE any

\* GoveeClient::turn
turn(self, device, state) == control(self, device, CmdTurn(state))

\* GoveeClient::brightness
brightness(self, device, value) == control(self, device, CmdBrightness(value))

\* GoveeClient::color
color(self, device, c) == control(self, device, CmdColor(c))

\* GoveeClient::color_temp
color_temp(self, device, value) == control(self, device, CmdColorTem(value))

----------------------------------------------------------------------------
(* Spec: callers run operations on one client *)

\* lib.rs: pub const API_BASE
API_BASE == "https://developer-api.govee.com/v1"

BaseUrls == {API_BASE, "http://127.0.0.1:1234"}
ApiUrls == {"https://developer-api.govee.com", "http://127.0.0.1:1234"}
ApiKeys == {"foobarbaz"} \cup InvalidHeaderValues

Callers == {"a", "b"}

NoDevice == [device |-> "none"]
NoRequest == [method |-> "none"]
NoResponse == [type |-> "none"]
NoResult == [pending |-> TRUE]

IdleCall ==
    [pc |-> "idle", op |-> "none", device |-> NoDevice, arg |-> JNull,
     request |-> NoRequest, sends |-> 0, response |-> NoResponse,
     result |-> NoResult]

\* The operation as far as its network exchange
Started(op, device, arg, step) ==
    IF step.await
    THEN [pc |-> "awaiting", op |-> op, device |-> device, arg |-> arg,
          request |-> step.request, sends |-> 1, response |-> NoResponse,
          result |-> NoResult]
    ELSE [pc |-> "done", op |-> op, device |-> device, arg |-> arg,
          request |-> NoRequest, sends |-> 0, response |-> NoResponse,
          result |-> step.result]

\* The return of an operation that took the caller's device with it
Returned_device_taken(call, outcome, result) ==
    [call EXCEPT !.pc = "done", !.response = outcome, !.result = result,
                 !.device = NoDevice]

\* The operation from the transport's answer to its return
Returned(call, outcome, result) ==
    [call EXCEPT !.pc = "done", !.response = outcome, !.result = result]

CanCall(c) == c \in env.callers /\ calls[c].pc = "idle"

\* The caller has used the result of its last call and drops it
CallerDrops(c) ==
    /\ calls[c].pc = "done"
    /\ calls' = [calls EXCEPT ![c] = IdleCall]
    /\ UNCHANGED <<client, build, env>>

Begin_shared_request(c, op, device, arg, step) ==
    /\ calls' = [x \in Callers |->
                    IF x = c THEN Started(op, device, arg, step)
                    ELSE IF calls[x].pc = "awaiting" /\ step.await
                    THEN [calls[x] EXCEPT !.request = step.request]
                    ELSE calls[x]]
    /\ UNCHANGED <<client, build, env>>

Begin(c, op, device, arg, step) ==
    /\ calls' = [calls EXCEPT ![c] = Started(op, device, arg, step)]
    /\ UNCHANGED <<client, build, env>>

End(c, outcome, result) ==
    /\ calls' = [calls EXCEPT ![c] = Returned(@, outcome, result)]
    /\ UNCHANGED <<client, build, env>>

\* What the callers pass and what the transport answers. A client with one
\* caller is run over everything; a client whose callers overlap is run over
\* a selection: one device with every command and one with turn alone, two
\* values of each payload, and four answers.
SchemaDevicePool ==
    IF env.pool = "few"
    THEN {d \in SchemaDevices :
              \/ /\ d.device = "34:20:03:15:82:ae"
                 /\ d.supported_commands = {"turn", "brightness", "color", "colorTem"}
              \/ /\ d.device = "99:E5:A4:C1:38:29:DA:7B"
                 /\ d.supported_commands = {"turn"}}
    ELSE SchemaDevices

ModelsDevicePool ==
    IF env.pool = "few"
    THEN {d \in ModelsDevices :
              \/ /\ d.device = "34:20:03:15:82:ae"
                 /\ d.supported_commands = ControlCommand
              \/ /\ d.device = "99:E5:A4:C1:38:29:DA:7B"
                 /\ d.supported_commands = {"Turn"}}
    ELSE ModelsDevices

TempPool == IF env.pool = "few" THEN TempValues \cap {1000, 5000} ELSE TempValues

BrightnessPool ==
    IF env.pool = "few" THEN BrightnessValues \cap {22, 100} ELSE BrightnessValues

SchemaColorPool ==
    IF env.pool = "few" THEN {c \in SchemaColors : c.g = 195} ELSE SchemaColors

ModelsColorPool ==
    IF env.pool = "few" THEN {c \in ModelsColors : c.g = 195} ELSE ModelsColors

OutcomePool ==
    IF env.pool = "few"
    THEN {o \in Outcomes :
              \/ o.type = "failure"
              \/ /\ o.type = "response" /\ o.status = 200
                 /\ o.body \in {Envelope(FullKeys, DevicesData),
                                Envelope(FullKeys, StateData)}
              \/ /\ o.type = "response" /\ o.status = 404
                 /\ o.body = NotJson}
    ELSE Outcomes

(* lib.rs *)

ClientDevices(c) ==
    /\ client.gen = "Client" /\ CanCall(c)
    /\ Begin(c, "devices", NoDevice, JNull, Client_devices(client))

ClientState(c) ==
    /\ client.gen = "Client" /\ CanCall(c)
    /\ \E d \in SchemaDevicePool : Begin(c, "state", d, JNull, Client_state(client, d))

ClientToggle(c) ==
    /\ client.gen = "Client" /\ CanCall(c)
    /\ \E d \in SchemaDevicePool, s \in PowerStates :
           Begin(c, "toggle", d, JStr(s), toggle(client, d, s))

ClientSetColor(c) ==
    /\ client.gen = "Client" /\ CanCall(c)
    /\ \E d \in SchemaDevicePool, col \in SchemaColorPool :
           Begin(c, "set_color", d, JColor(col), set_color(client, d, col))

ClientSetColorTemperature(c) ==
    /\ client.gen = "Client" /\ CanCall(c)
    /\ \E d \in SchemaDevicePool, v \in TempPool :
           Begin(c, "set_color_temperature", d, JNum(v),
                 set_color_temperature(client, d, v))

ClientSetBrightness(c) ==
    /\ client.gen = "Client" /\ CanCall(c)
    /\ \E d \in SchemaDevicePool, v \in BrightnessPool :
           Begin(c, "set_brightness", d, JNum(v), set_brightness(client, d, v))

ClientDevicesReturns(c) ==
    /\ client.gen = "Client" /\ calls[c].pc = "awaiting" /\ calls[c].op = "devices"
    /\ \E outcome \in OutcomePool : End(c, outcome, Client_devices_returns(outcome))

ClientStateReturns(c) ==
    /\ client.gen = "Client" /\ calls[c].pc = "awaiting" /\ calls[c].op = "state"
    /\ \E outcome \in OutcomePool : End(c, outcome, Client_state_returns(outcome))

ClientControlReturns(c) ==
    /\ client.gen = "Client" /\ calls[c].pc = "awaiting"
    /\ calls[c].op \in {"toggle", "set_color", "set_color_temperature", "set_brightness"}
    /\ \E outcome \in OutcomePool : End(c, outcome, control_sent(outcome))

(* client.rs *)

GoveeDevices(c) ==
    /\ client.gen = "GoveeClient" /\ CanCall(c)
    /\ Begin(c, "devices", NoDevice, JNull, GoveeClient_devices(client))

GoveeState(c) ==
    /\ client.gen = "GoveeClient" /\ CanCall(c)
    /\ \E d \in ModelsDevicePool :
           Begin(c, "state", d, JNull, GoveeClient_state(client, d))

GoveeTurn(c) ==
    /\ client.gen = "GoveeClient" /\ CanCall(c)
    /\ \E d \in ModelsDevicePool, s \in PowerStates :
           Begin(c, "turn", d, JStr(s), turn(client, d, s))

GoveeBrightness(c) ==
    /\ client.gen = "GoveeClient" /\ CanCall(c)
    /\ \E d \in ModelsDevicePool, v \in BrightnessPool :
           Begin(c, "brightness", d, JNum(v), brightness(client, d, v))

GoveeColor(c) ==
    /\ client.gen = "GoveeClient" /\ CanCall(c)
    /\ \E d \in ModelsDevicePool, col \in ModelsColorPool :
           Begin(c, "color", d, JColor(col), color(client, d, col))

GoveeColorTemp(c) ==
    /\ client.gen = "GoveeClient" /\ CanCall(c)
    /\ \E d \in ModelsDevicePool, v \in TempPool :
           Begin(c, "color_temp", d, JNum(v), color_temp(client, d, v))

GoveeDevicesReturns(c) ==
    /\ client.gen = "GoveeClient" /\ calls[c].pc = "awaiting" /\ calls[c].op = "devices"
    /\ \E outcome \in OutcomePool : End(c, outcome, GoveeClient_devices_returns(outcome))

GoveeStateReturns(c) ==
    /\ client.gen = "GoveeClient" /\ calls[c].pc = "awaiting" /\ calls[c].op = "state"
    /\ \E outcome \in OutcomePool : End(c, outcome, GoveeClient_state_returns(outcome))

GoveeControlReturns(c) ==
    /\ client.gen = "GoveeClient" /\ calls[c].pc = "awaiting"
    /\ calls[c].op \in {"turn", "brightness", "color", "color_temp"}
    /\ \E outcome \in OutcomePool : End(c, outcome, control_returns(outcome))

\* The state after Client::new / GoveeClient::new; env keeps the constructor's
\* arguments and which callers run operations
Init ==
    /\ calls = [c \in Callers |-> IdleCall]
    /\ build = NoBuild
    /\ \E k \in ApiKeys :
           \/ \E u \in BaseUrls :
                  /\ client = Client_new(u, k)
                  /\ env = [callers |-> {"a"}, pool |-> "all", url |-> u, api_key |-> k]
           \/ \E u \in ApiUrls :
                  /\ client = GoveeClient_new(u, k)
                  /\ env = [callers |-> {"a"}, pool |-> "all", url |-> u, api_key |-> k]

Next ==
    \E c \in Callers :
        \/ ClientDevices(c)
        \/ ClientState(c)
        \/ ClientToggle(c)
        \/ ClientSetColor(c)
        \/ ClientSetColorTemperature(c)
        \/ ClientSetBrightness(c)
        \/ ClientDevicesReturns(c)
        \/ ClientStateReturns(c)
        \/ ClientControlReturns(c)
        \/ GoveeDevices(c)
        \/ GoveeState(c)
        \/ GoveeTurn(c)
        \/ GoveeBrightness(c)
        \/ GoveeColor(c)
        \/ GoveeColorTemp(c)
        \/ GoveeDevicesReturns(c)
        \/ GoveeStateReturns(c)
        \/ GoveeControlReturns(c)
        \/ CallerDrops(c)

Spec == Init /\ [][Next]_vars

\* The same client shared by callers whose operations overlap
ConcInit ==
    /\ calls = [c \in Callers |-> IdleCall]
    /\ build = NoBuild
    /\ \E k \in ApiKeys :
           \/ \E u \in BaseUrls :
                  /\ client = Client_new(u, k)
                  /\ env = [callers |-> Callers, pool |-> "few", url |-> u, api_key |-> k]
           \/ \E u \in ApiUrls :
                  /\ client = GoveeClient_new(u, k)
                  /\ env = [callers |-> Callers, pool |-> "few", url |-> u, api_key |-> k]

ConcSpec == ConcInit /\ [][Next]_vars

----------------------------------------------------------------------------
(* Properties of the builders, checked under BuildSpec *)

SchemaBuilders ==
    {"toggle_request", "color_request", "color_temperature_request",
     "brightness_request"}

\* The command kind a build is for
BuildKind ==
    CASE build.fn = "toggle_request" -> "Turn"
      [] build.fn = "color_request" -> "Color"
      [] build.fn = "color_temperature_request" -> "ColorTem"
      [] build.fn = "brightness_request" -> "Brightness"
      [] build.fn = "control" -> build.arg.variant
      [] OTHER -> "none"

\* The numeric payload of a build, where it has one
BuildNumber ==
    CASE build.fn \in {"color_temperature_request", "brightness_request"} -> build.arg.num
      [] build.fn = "control" /\ build.arg.variant = "ColorTem" -> build.arg.temp
      [] build.fn = "control" /\ build.arg.variant = "Brightness" -> build.arg.level
      [] OTHER -> 0

\* The kind is a member of the device's supported set
BuildKindSupported ==
    IF build.fn = "control"
    THEN BuildKind \in build.device.supported_commands
    ELSE CommandDisplay(BuildKind) \in build.device.supported_commands

\* The payload is in the range the kind allows
BuildPayloadValid ==
    CASE BuildKind = "ColorTem" -> TEMP_MIN <= BuildNumber /\ BuildNumber <= TEMP_MAX
      [] BuildKind = "Brightness" -> 0 <= BuildNumber /\ BuildNumber <= 100
      [] OTHER -> TRUE

IsCommandBuild == build.fn \in SchemaBuilders \cup {"control"}

\* C1: for every device and command kind, building a command with a valid
\* payload succeeds exactly when the kind is in the device's supported set,
\* and fails with Unsupported otherwise.
C1_BuildSucceedsIffSupported ==
    (IsCommandBuild /\ BuildPayloadValid) =>
        /\ build.result.ok <=> BuildKindSupported
        /\ ~BuildKindSupported =>
               (~build.result.ok /\ build.result.err.kind = "Unsupported")

\* C3: on a device that supports ColorTemperature, a color-temperature
\* command with value t is built exactly when 2000 <= t <= 9000.
C3_ColorTemperatureRange ==
    (IsCommandBuild /\ BuildKind = "ColorTem" /\ BuildKindSupported) =>
        (build.result.ok <=> (2000 <= BuildNumber /\ BuildNumber <= 9000))

\* The fixed wire token of each command kind
NameToken(kind) ==
    CASE kind = "Turn" -> "turn"
      [] kind = "Brightness" -> "brightness"
      [] kind = "Color" -> "color"
      [] kind = "ColorTem" -> "colorTem"

\* C4: every request body built for a command of kind K carries the fixed
\* token of K in cmd.name (turn, brightness, color, colorTem), so no two
\* kinds share a name.
C4_CommandNameTokens ==
    (IsCommandBuild /\ build.result.ok) =>
        build.result.val.cmd.name = NameToken(BuildKind)

\* C6: supports(K) is true exactly when the token of K is a member of the
\* device's supported_commands, for both Device types.
C6_SupportsIsMembership ==
    /\ build.fn = "supports" =>
           (build.result <=>
                NameToken(build.arg.str) \in build.device.supported_commands)
    /\ build.fn = "models_supports" =>
           (build.result <=>
                NameToken(build.arg.str) \in
                    {NameToken(k) : k \in build.device.supported_commands})

\* A device whose set holds only colorTem is asked about ColorTem and about
\* Color
C6_Witness ==
    /\ build.fn = "supports"
    /\ build.device.supported_commands = {"colorTem"}
    /\ build.arg.str = "ColorTem"
    /\ build.result = TRUE

----------------------------------------------------------------------------
(* Properties of the client operations, checked under Spec *)

ControlOps ==
    {"toggle", "set_color", "set_color_temperature", "set_brightness",
     "turn", "brightness", "color", "color_temp"}

\* The command kind of a control operation
OpKind(op) ==
    CASE op \in {"toggle", "turn"} -> "Turn"
      [] op \in {"set_brightness", "brightness"} -> "Brightness"
      [] op \in {"set_color", "color"} -> "Color"
      [] op \in {"set_color_temperature", "color_temp"} -> "ColorTem"

\* The target device of a control call has the call's kind in its set
CallKindSupported(call) ==
    IF client.gen = "Client"
    THEN NameToken(OpKind(call.op)) \in call.device.supported_commands
    ELSE OpKind(call.op) \in call.device.supported_commands

InCall(c) == calls[c].pc \in {"awaiting", "done"}

\* C2: a control operation for a kind outside the device's supported set
\* returns an error and never hands a request to the transport.
C2_UnsupportedNeverSent ==
    \A c \in Callers :
        (InCall(c) /\ calls[c].op \in ControlOps /\ ~CallKindSupported(calls[c])) =>
            /\ calls[c].sends = 0
            /\ calls[c].pc = "done" /\ ~calls[c].result.ok

BrightnessOps == {"set_brightness", "brightness"}

LocalValidationPasses(call) ==
    call.op \in ControlOps =>
        /\ CallKindSupported(call)
        /\ OpKind(call.op) = "ColorTem" =>
               (TEMP_MIN <= call.arg.num /\ call.arg.num <= TEMP_MAX)
        /\ OpKind(call.op) = "Brightness" => call.arg.num <= 100

\* A transport-level failure as the caller sees it
IsTransportError(result) ==
    /\ ~result.ok
    /\ \/ result.err.kind = "RequestError" /\ result.err.source \in {"request", "body"}
       \/ result.err.kind = "Api" /\ result.err.source.variant = "Client"
              /\ result.err.source.source.variant = "Communication"

\* C7: every operation hands at most one request to the transport per call,
\* exactly one when local validation passes (and the key makes a header), and
\* a failed exchange is returned as an error after that single attempt.
C7_OneExchangePerCall ==
    \A c \in Callers :
        InCall(c) =>
            /\ calls[c].sends <= 1
            /\ (LocalValidationPasses(calls[c]) /\ HeaderValueValid(env.api_key)) =>
                   calls[c].sends = 1
            /\ (calls[c].pc = "done" /\ calls[c].response.type = "failure") =>
                   (calls[c].sends = 1 /\ IsTransportError(calls[c].result))

\* An operation whose single exchange failed has returned the error
C7_Witness ==
    \E c \in Callers :
        /\ calls[c].pc = "done"
        /\ calls[c].response.type = "failure"
        /\ calls[c].sends = 1
        /\ ~calls[c].result.ok

\* The exchange completed with a status outside 200..299
CompletedNon2xx(call) ==
    /\ call.pc = "done"
    /\ call.response.type = "response"
    /\ call.response.body.kind # "unreadable"
    /\ ~is_success(call.response.status)

\* C8: when the exchange completes with a non-2xx status the operation
\* returns an error, and one that is not a transport error.
C8_Non2xxIsHttpStatusError ==
    \A c \in Callers :
        CompletedNon2xx(calls[c]) =>
            (~calls[c].result.ok /\ ~IsTransportError(calls[c].result))

\* The exchange completed with a 2xx status and an envelope that has its
\* message and code
WellFormedEnvelope(call) ==
    /\ call.pc = "done"
    /\ call.response.type = "response"
    /\ is_success(call.response.status)
    /\ call.response.body.kind = "object"
    /\ {"message", "code"} \subseteq call.response.body.keys

DataMissing(body) == "data" \notin body.keys \/ body.data.type = "null"

\* C9: list-devices on a well-formed envelope returns NoDevicesReturned when
\* data is absent or null, and the decoded devices when data holds them.
C9_NoDevicesReturned ==
    \A c \in Callers :
        (calls[c].op = "devices" /\ WellFormedEnvelope(calls[c])) =>
            LET body == calls[c].response.body
            IN  /\ DataMissing(body) => calls[c].result = Err(NoDevicesReturned)
                /\ (~DataMissing(body) /\ body.data.shape = "devices") =>
                       /\ calls[c].result.ok
                       /\ Len(calls[c].result.val.devices) = Len(body.data.devices)

\* C10: every request handed to the transport carries the Govee-API-Key
\* header with the key the client was constructed with.
C10_AuthHeaderOnEveryRequest ==
    \A c \in Callers :
        calls[c].sends >= 1 =>
            \E h \in calls[c].request.headers :
                /\ h.name = HeaderNameNormal("Govee-API-Key")
                /\ h.value = env.api_key

\* A control request of the blocking Client is with the transport
C10_Witness ==
    \E c \in Callers :
        /\ calls[c].pc = "awaiting"
        /\ calls[c].sends = 1
        /\ calls[c].request.method = "PUT"
        /\ client.gen = "Client"
        /\ \E h \in calls[c].request.headers : h.value = env.api_key

\* The payload of a control call as it goes on the wire: a power state is
\* the lowercase string, numbers and colors go as they are
WirePayload(arg) ==
    IF arg.type = "string"
    THEN IF arg.str = "On" THEN JStr("on") ELSE JStr("off")
    ELSE arg

\* C11: the body of every control request sent has device and model of the
\* target device and cmd.value equal to the payload, a power state as "on" or
\* "off"; Turn(On) for 34:20:03:15:82:ae / H6089 gives exactly
\* {device, model, cmd: {name: "turn", value: "on"}}.
C11_ControlBodyCarriesDeviceAndPayload ==
    \A c \in Callers :
        (calls[c].op \in ControlOps /\ calls[c].sends = 1) =>
            /\ calls[c].request.body.some
            /\ calls[c].request.body.val.device = calls[c].device.device
            /\ calls[c].request.body.val.model = calls[c].device.model
            /\ calls[c].request.body.val.cmd.value = WirePayload(calls[c].arg)
            /\ (OpKind(calls[c].op) = "Turn" /\ calls[c].arg.str = "On"
                    /\ calls[c].device.device = "34:20:03:15:82:ae") =>
                   calls[c].request.body.val =
                       [device |-> "34:20:03:15:82:ae", model |-> "H6089",
                        cmd |-> [name |-> "turn", value |-> JStr("on")]]

\* GoveeClient::turn has sent Turn(On) for the example device
C11_Witness ==
    \E c \in Callers :
        /\ calls[c].op = "turn"
        /\ "Turn" \in calls[c].device.supported_commands
        /\ calls[c].sends = 1
        /\ calls[c].arg.str = "On"
        /\ calls[c].device.device = "34:20:03:15:82:ae"
        /\ calls[c].request.body.val.cmd.value = JStr("on")

\* C12: every Color request body has r, g and b within 0..255.
C12_ColorChannelsWithinU8 ==
    \A c \in Callers :
        (calls[c].op \in {"set_color", "color"} /\ calls[c].sends = 1) =>
            LET value == calls[c].request.body.val.cmd.value
            IN  /\ 0 <= value.r /\ value.r <= 255
                /\ 0 <= value.g /\ value.g <= 255
                /\ 0 <= value.b /\ value.b <= 255

----------------------------------------------------------------------------
(* Decoding of the answers                                                 *)

KnownTokens == {"turn", "brightness", "color", "colorTem"}

PropertyKeys == {"online", "powerState", "brightness", "color", "colorTem"}

\* The result is the error of a body that could not be decoded
IsDecodeError(result) ==
    /\ ~result.ok
    /\ \/ result.err.kind = "RequestError" /\ result.err.source = "decode"
       \/ result.err.kind = "Api" /\ result.err.source.variant = "DataType"

\* The call got a 2xx answer whose full envelope holds data of the shape
DecodedAnswer(call, op, shape) ==
    /\ call.op = op
    /\ WellFormedEnvelope(call)
    /\ ~DataMissing(call.response.body)
    /\ call.response.body.data.shape = shape

UnknownToken(data) ==
    \E i \in 1 .. Len(data.devices) :
        ~(Range(data.devices[i].supportCmds) \subseteq KnownTokens)

\* C13: a devices list in which a device names a command other than the four
\* tokens is a decode error of list-devices.
C13_UnknownCommandTokenIsDecodeError ==
    \A c \in Callers :
        (/\ DecodedAnswer(calls[c], "devices", "devices")
         /\ UnknownToken(calls[c].response.body.data)) =>
            IsDecodeError(calls[c].result)

\* The key and value a decoded property stands for, in either generation
PropertyAsElement(p) ==
    IF "variant" \notin DOMAIN p THEN p
    ELSE CASE p.variant = "Online" -> [key |-> "online", value |-> JBool(p.online)]
           [] p.variant = "PowerState" ->
                  [key |-> "powerState",
                   value |-> JStr(IF p.power_state = "On" THEN "on" ELSE "off")]
           [] p.variant = "Brightness" ->
                  [key |-> "brightness", value |-> JNum(p.brightness)]
           [] p.variant = "Color" ->
                  [key |-> "color", value |-> JColor(p.color)]
           [] p.variant = "ColorTem" ->
                  [key |-> "colorTem", value |-> JNum(p.color_tem)]

UnknownKey(data) ==
    \E i \in 1 .. Len(data.properties) : data.properties[i].key \notin PropertyKeys

\* C14: a state whose properties hold an element with an unrecognised key
\* still decodes, and every recognised element is returned.
C14_UnknownPropertyKeyTolerated ==
    \A c \in Callers :
        (/\ DecodedAnswer(calls[c], "state", "state")
         /\ UnknownKey(calls[c].response.body.data)) =>
            /\ calls[c].result.ok
            /\ LET raw == calls[c].response.body.data.properties
                   got == calls[c].result.val.properties
               IN  \A i \in 1 .. Len(raw) :
                       raw[i].key \in PropertyKeys =>
                           \E j \in 1 .. Len(got) : PropertyAsElement(got[j]) = raw[i]

\* The wire token of a decoded command kind, in either generation
KindToken(k) == IF k \in ControlCommand THEN SerdeCamelCase(k) ELSE k

\* C15: a devices list of N devices with known command tokens decodes to N
\* devices in the same order, identifier, model, name and flags copied, and
\* supported_commands exactly the kinds that supportCmds names.
C15_DevicesDecodedInOrder ==
    \A c \in Callers :
        (/\ DecodedAnswer(calls[c], "devices", "devices")
         /\ ~UnknownToken(calls[c].response.body.data)) =>
            /\ calls[c].result.ok
            /\ LET raw == calls[c].response.body.data.devices
                   got == calls[c].result.val.devices
               IN  /\ Len(got) = Len(raw)
                   /\ \A i \in 1 .. Len(raw) :
                          /\ got[i].device = raw[i].device
                          /\ got[i].model = raw[i].model
                          /\ got[i].name = raw[i].deviceName
                          /\ got[i].controllable = raw[i].controllable
                          /\ got[i].retrievable = raw[i].retrievable
                          /\ {KindToken(k) : k \in got[i].supported_commands}
                                 = Range(raw[i].supportCmds)

C15_Witness ==
    \E c \in Callers :
        /\ calls[c].op = "devices"
        /\ client.gen = "GoveeClient"
        /\ calls[c].pc = "done"
        /\ calls[c].result.ok
        /\ Len(calls[c].result.val.devices) = 3
        /\ calls[c].result.val.devices[3].supported_commands = {"Turn"}
        /\ ~calls[c].result.val.devices[2].retrievable

\* C16: a state whose properties all have recognised keys decodes to one
\* property per element, in order, each standing for its element's key and
\* value; the example of four gives these four.
C16_PropertiesDecodedInOrder ==
    \A c \in Callers :
        (/\ DecodedAnswer(calls[c], "state", "state")
         /\ ~UnknownKey(calls[c].response.body.data)) =>
            /\ calls[c].result.ok
            /\ LET raw == calls[c].response.body.data.properties
                   got == calls[c].result.val.properties
               IN  /\ Len(got) = Len(raw)
                   /\ \A i \in 1 .. Len(raw) : PropertyAsElement(got[i]) = raw[i]
                   /\ (client.gen = "GoveeClient" /\ raw = StateData.properties) =>
                          got = <<[variant |-> "Online", online |-> FALSE],
                                  [variant |-> "PowerState", power_state |-> "Off"],
                                  [variant |-> "Brightness", brightness |-> 82],
                                  [variant |-> "Color",
                                   color |-> [r |-> 11, g |-> 22, b |-> 33]]>>

C16_Witness ==
    \E c \in Callers :
        /\ calls[c].op = "state"
        /\ client.gen = "GoveeClient"
        /\ calls[c].pc = "done"
        /\ calls[c].result.ok
        /\ Len(calls[c].result.val.properties) = 4
        /\ calls[c].result.val.properties[3].variant = "Brightness"

----------------------------------------------------------------------------
(* Validation before the exchange                                          *)

\* The payload of a control call is outside the range of its kind
PayloadOutOfRange(call) ==
    /\ call.op \in ControlOps
    /\ \/ /\ OpKind(call.op) = "ColorTem"
          /\ (call.arg.num < TEMP_MIN \/ call.arg.num > TEMP_MAX)
       \/ /\ OpKind(call.op) = "Brightness"
          /\ call.arg.num > 100

\* C17: a control operation whose payload is out of range (colour temperature
\* outside 2000..9000, brightness above 100) returns an error at once, without
\* an exchange with the transport, then or later.
C17_InvalidPayloadNeverSent ==
    \A c \in Callers :
        (InCall(c) /\ PayloadOutOfRange(calls[c])) =>
            /\ calls[c].sends = 0
            /\ calls[c].pc = "done"
            /\ ~calls[c].result.ok

----------------------------------------------------------------------------
(* Operations in flight together                                           *)

ArgColor(arg) == [r |-> arg.r, g |-> arg.g, b |-> arg.b]

\* What the operation does up to its exchange when it runs alone on the
\* client as constructed
AloneStep(self, op, device, arg) ==
    IF self.gen = "Client"
    THEN CASE op = "devices" -> Client_devices(self)
           [] op = "state" -> Client_state(self, device)
           [] op = "toggle" -> toggle(self, device, arg.str)
           [] op = "set_color" -> set_color(self, device, ArgColor(arg))
           [] op = "set_color_temperature" ->
                  set_color_temperature(self, device, arg.num)
           [] op = "set_brightness" -> set_brightness(self, device, arg.num)
    ELSE CASE op = "devices" -> GoveeClient_devices(self)
           [] op = "state" -> GoveeClient_state(self, device)
           [] op = "turn" -> turn(self, device, arg.str)
           [] op = "color" -> color(self, device, ArgColor(arg))
           [] op = "color_temp" -> color_temp(self, device, arg.num)
           [] op = "brightness" -> brightness(self, device, arg.num)

\* What the operation returns for the answer to its own request when it runs
\* alone
AloneResult(self, op, outcome) ==
    IF self.gen = "Client"
    THEN CASE op = "devices" -> Client_devices_returns(outcome)
           [] op = "state" -> Client_state_returns(outcome)
           [] OTHER -> control_sent(outcome)
    ELSE CASE op = "devices" -> GoveeClient_devices_returns(outcome)
           [] op = "state" -> GoveeClient_state_returns(outcome)
           [] OTHER -> control_returns(outcome)

\* The client as it was constructed
Constructed ==
    IF client.gen = "Client" THEN Client_new(env.url, env.api_key)
                             ELSE GoveeClient_new(env.url, env.api_key)

AloneCall(call) ==
    LET started == Started(call.op, call.device, call.arg,
                           AloneStep(Constructed, call.op, call.device, call.arg))
    IN  IF call.pc = "awaiting" \/ call.response = NoResponse
        THEN started
        ELSE Returned(started, call.response,
                      AloneResult(Constructed, call.op, call.response))

\* C18: with several operations in flight on one client, in every
\* interleaving each operation sends the request and returns the result that
\* it sends and returns alone, and the client stays as constructed.
C18_InFlightCallsDoNotInterfere ==
    /\ client = Constructed
    /\ \A c \in Callers :
           InCall(c) =>
               /\ calls[c].pc = AloneCall(calls[c]).pc
               /\ calls[c].sends = AloneCall(calls[c]).sends
               /\ calls[c].request = AloneCall(calls[c]).request
               /\ calls[c].result = AloneCall(calls[c]).result

\* Two control operations for different devices are in flight at once
C18_Witness ==
    /\ calls["a"].pc = "awaiting" /\ calls["b"].pc = "awaiting"
    /\ calls["a"].op \in ControlOps /\ calls["b"].op \in ControlOps
    /\ calls["a"].device.device # calls["b"].device.device
    /\ calls["a"].request.body.val.device # calls["b"].request.body.val.device

----------------------------------------------------------------------------
(* Get-state                                                               *)

StatePaths == {"devices/state", "v1/devices/state"}

\* C19: get-state for a device sends one GET to the device-state path with
\* the query device = the device's identifier and model = the device's model
\* and no body (given a key that makes a header), and a successful call
\* returns the state decoded from the envelope's data.
C19_StateRequestAndResult ==
    \A c \in Callers :
        (InCall(c) /\ calls[c].op = "state") =>
            /\ calls[c].sends <= 1
            /\ HeaderValueValid(env.api_key) => calls[c].sends = 1
            /\ calls[c].sends = 1 =>
                   /\ calls[c].request.method = "GET"
                   /\ calls[c].request.url[3] \in StatePaths
                   /\ calls[c].request.query
                          = <<<<"device", calls[c].device.device>>,
                              <<"model", calls[c].device.model>>>>
                   /\ ~calls[c].request.body.some
            /\ (calls[c].pc = "done" /\ calls[c].result.ok) =>
                   /\ calls[c].response.type = "response"
                   /\ calls[c].response.body.kind = "object"
                   /\ "data" \in calls[c].response.body.keys
                   /\ calls[c].response.body.data.shape = "state"
                   /\ LET data == calls[c].response.body.data
                          got == calls[c].result.val
                      IN  /\ got.device = data.device
                          /\ got.model = data.model
                          /\ Len(got.properties) = Len(data.properties)
                          /\ \A i \in 1 .. Len(data.properties) :
                                 PropertyAsElement(got.properties[i])
                                     = data.properties[i]

\* GoveeClient::state for the second device has returned a decoded state
C19_Witness ==
    \E c \in Callers :
        /\ calls[c].op = "state"
        /\ client.gen = "GoveeClient"
        /\ calls[c].device.device = "99:E5:A4:C1:38:29:DA:7B"
        /\ calls[c].sends = 1
        /\ calls[c].request.query[1] = <<"device", "99:E5:A4:C1:38:29:DA:7B">>
        /\ calls[c].request.query[2] = <<"model", calls[c].device.model>>
        /\ calls[c].pc = "done"
        /\ calls[c].result.ok
        /\ Len(calls[c].result.val.properties) = 2
        /\ calls[c].result.val.properties[2].variant = "ColorTem"

----------------------------------------------------------------------------
(* Structure of the answer's body                                          *)

\* The call's exchange completed with a 2xx status and a body that was read
Completed2xx(call) ==
    /\ call.pc = "done"
    /\ call.response.type = "response"
    /\ is_success(call.response.status)
    /\ call.response.body.kind # "unreadable"

\* The body is not JSON, or is an envelope without its data
BodyMalformed(body) == body.kind # "object" \/ "data" \notin body.keys

\* The envelope's data is what the operation decodes
DataFits(op, body) ==
    op = "state" =>
        /\ body.data.type = "object"
        /\ body.data.shape = "state"
        /\ ~UnknownKey(body.data)

\* C20: for get-state and the control operations, a completed exchange whose
\* body is not valid JSON or lacks the envelope's data makes the operation
\* return an error that is not a transport error, never a success; a
\* complete envelope with an extra top-level key is decoded like one without.
C20_MalformedBodyIsDecodeError ==
    \A c \in Callers :
        (/\ calls[c].op \in ControlOps \cup {"state"}
         /\ Completed2xx(calls[c])) =>
            LET body == calls[c].response.body
            IN  /\ BodyMalformed(body) =>
                       (~calls[c].result.ok /\ ~IsTransportError(calls[c].result))
                /\ (/\ ~BodyMalformed(body)
                    /\ (FullKeys \cup {"requestId"}) \subseteq body.keys
                    /\ DataFits(calls[c].op, body)) => calls[c].result.ok

----------------------------------------------------------------------------
(* The errors of the request builders                                      *)

\* C21: whenever a command build for kind K and device D fails with
\* Unsupported, the kind is one D does not support and the error carries K
\* and a device equal to D (identifier, model, name, flags, supported set).
C21_UnsupportedCarriesKindAndDevice ==
    (IsCommandBuild /\ ~build.result.ok /\ build.result.err.kind = "Unsupported") =>
        /\ ~BuildKindSupported
        /\ build.result.err.command = BuildKind
        /\ build.result.err.device = build.device

\* color_request on a device that supports other commands, not Color
C21_Witness ==
    /\ build.fn = "color_request"
    /\ build.device.supported_commands = {"turn", "brightness"}
    /\ ~build.result.ok
    /\ build.result.err = Unsupported("Color", build.device)

\* C22: in color_temperature_request the capability check comes first. A
\* device without colorTem gets Unsupported for every value, in range or
\* not, and the range error is returned only for a device with colorTem.
C22_CapabilityBeforeRange ==
    build.fn = "color_temperature_request" =>
        /\ ~BuildKindSupported =>
               build.result = Err(Unsupported("ColorTem", build.device))
        /\ (~build.result.ok /\ build.result.err.kind = "Error") =>
               /\ BuildKindSupported
               /\ (build.arg.num < TEMP_MIN \/ build.arg.num > TEMP_MAX)

\* An out-of-range value on a device without colorTem gives Unsupported
C22_Witness ==
    /\ build.fn = "color_temperature_request"
    /\ "colorTem" \notin build.device.supported_commands
    /\ build.arg.num < TEMP_MIN
    /\ ~build.result.ok
    /\ build.result.err.kind = "Unsupported"

----------------------------------------------------------------------------
(* What the operations leave alone                                         *)

\* C23: no step of any operation, successful or failed, changes the client's
\* configuration (base URL and API key, which stay as constructed) or the
\* device value that was passed to an operation still known to its caller.
C23_ConfigurationAndDevicesUnchanged ==
    /\ [](client = Constructed)
    /\ [][/\ client' = client
          /\ \A c \in Callers :
                 (InCall(c) /\ calls'[c].pc # "idle") =>
                     calls'[c].device = calls[c].device]_vars

\* One caller's operation has failed and the other's has succeeded, on the
\* client as constructed, and each still holds the device it passed
C23_Witness ==
    /\ client = Constructed
    /\ calls["a"].pc = "done" /\ calls["b"].pc = "done"
    /\ calls["a"].op \in ControlOps /\ calls["b"].op = "state"
    /\ ~calls["a"].result.ok /\ calls["a"].result.err.kind = "Unsupported"
    /\ calls["a"].result.err.device = calls["a"].device
    /\ calls["a"].device.supported_commands = {"turn"}
    /\ calls["b"].result.ok
    /\ calls["b"].device.device = "34:20:03:15:82:ae"

============================================================================
